---- MODULE Spec2Model ----
(***************************************************************************)
(* Model of the user_sgi platform driver (src/user_sgi.c).                 *)
(*                                                                         *)
(* Shared state: the two file-scope globals ipi_dev and ipi_count, the     *)
(* kernel's IPI handler table (set_ipi_handler / clear_ipi_handler), the   *)
(* sysfs 'count' attribute of every platform device and the devm-managed   *)
(* driver data of every platform device.                                   *)
(*                                                                         *)
(* Processes: handle_ipi runs on every core, one memory access per step;   *)
(* user_sgi_probe / user_sgi_remove run one at a time (the driver core     *)
(* serialises them), one statement per step, and race with handle_ipi;     *)
(* count_show is an atomic acquire load followed by formatting.            *)
(***************************************************************************)
EXTENDS Integers, Sequences, FiniteSets, TLC

(***************************************************************************)
(* Bounds and universes.                                                   *)
(***************************************************************************)
MaxInvocations == 3

Cores   == {"cpu0", "cpu1"}
Devices == {"pdev1", "pdev2"}
Sources == {8, 9}

NULL    == "NULL"
NoRead  == <<>>
NoData  == <<>>

ENOMEM == 12
EBUSY  == 16
EINVAL == 22
EEXIST == 17

(***************************************************************************)
(* u32 arithmetic.  A u32 is kept as two 16-bit limbs <<hi, lo>> so that   *)
(* the full 32-bit width, the sign bit and the wraparound are exact.       *)
(***************************************************************************)
Base == 65536

U32Zero == <<0, 0>>

U32Inc(v) ==
    IF v[2] + 1 < Base THEN <<v[1], v[2] + 1>>
    ELSE IF v[1] + 1 < Base THEN <<v[1] + 1, 0>>
    ELSE <<0, 0>>

RECURSIVE U32Add(_, _)
U32Add(v, n) == IF n = 0 THEN v ELSE U32Add(U32Inc(v), n - 1)

U32Leq(a, b) == a[1] < b[1] \/ (a[1] = b[1] /\ a[2] <= b[2])

\* TRUE when adding n (small) to v passes 2^32 - 1
U32Wraps(v, n) == v[1] = Base - 1 /\ v[2] + n >= Base

(***************************************************************************)
(* Decimal formatting, as vsnprintf does it.                               *)
(***************************************************************************)
DigitChar == <<"0", "1", "2", "3", "4", "5", "6", "7", "8", "9">>

\* quotient and remainder of the two-limb magnitude m (at most 2^32) by 10
DivTen(m) ==
    LET qh == m[1] \div 10
        rh == m[1] % 10
        t  == rh * Base + m[2]
    IN  [q |-> <<qh, t \div 10>>, r |-> t % 10]

RECURSIVE DecDigits(_)
DecDigits(m) ==
    IF m[1] = 0 /\ m[2] < 10 THEN <<DigitChar[m[2] + 1]>>
    ELSE LET d == DivTen(m) IN Append(DecDigits(d.q), DigitChar[d.r + 1])

\* the magnitude 2^32 - v of the negative int whose bit pattern is v >= 2^31
NegMagnitude(v) ==
    IF v[2] = 0 THEN <<Base - v[1], 0>> ELSE <<Base - 1 - v[1], Base - v[2]>>

\* "%d": the 32-bit pattern is fetched as an int, so bit 31 is the sign
FormatD(v) ==
    IF v[1] >= Base \div 2 THEN <<"-">> \o DecDigits(NegMagnitude(v))
    ELSE DecDigits(v)

PAGE_SIZE == 4096

\* snprintf(buf, size, ...): at most size - 1 characters are stored
snprintf(size, s) == IF Len(s) <= size - 1 THEN s ELSE SubSeq(s, 1, size - 1)

count_show_text(v) == snprintf(PAGE_SIZE, FormatD(v))

(***************************************************************************)
(* State.                                                                  *)
(***************************************************************************)
VARIABLES
    ipi_dev,      \* static struct device *ipi_dev
    ipi_count,    \* static u32 ipi_count
    ipi_handler,  \* kernel IPI handler table: source id -> "none" | "handle_ipi"
    attr,         \* per device: the 'count' attribute: "none" | "exists" | "removed"
    drvdata,      \* per device: NoData or <<ipi_number>>, the user_sgi_data
    dstate,       \* per device: Uninitialized | Probing | Active | Removing
    lpc,          \* position of the lifecycle operation in flight
    ldev,         \* the pdev of the lifecycle operation in flight
    lres,         \* the value the lifecycle operation returns
    hpc,          \* per core: position inside handle_ipi
    htmp,         \* per core: the value of ipi_count read for ipi_count + 1
    hdev,         \* per core: the local variable dev
    hactive,      \* per core: devices Active during the whole invocation so far
    initial,      \* the counter's value in the initial state
    nStarted,     \* handle_ipi invocations started
    nDone,        \* handle_ipi invocations completed
    readVal,      \* value loaded by the last count_show
    readText      \* text returned by the last count_show

vars == <<ipi_dev, ipi_count, ipi_handler, attr, drvdata, dstate, lpc, ldev, lres,
          hpc, htmp, hdev, hactive, initial, nStarted, nDone, readVal, readText>>

globals   == <<ipi_dev, ipi_count, ipi_handler, attr>>
lifecycle == <<drvdata, dstate, lpc, ldev, lres>>
handler   == <<hpc, htmp, hdev, nStarted, nDone>>
reader    == <<readVal, readText>>

\* ((struct user_sgi_data*)platform_get_drvdata(pdev))->ipi_number
ipi_number(d) == drvdata[d][1]

Init ==
    /\ ipi_dev = NULL
    /\ ipi_count = U32Zero
    /\ initial = ipi_count
    /\ ipi_handler = [n \in Sources |-> "none"]
    /\ attr = [d \in Devices |-> "none"]
    /\ drvdata = [d \in Devices |-> NoData]
    /\ dstate = [d \in Devices |-> "Uninitialized"]
    /\ lpc = "idle"
    /\ ldev = NULL
    /\ lres = 0
    /\ hpc = [c \in Cores |-> "idle"]
    /\ htmp = [c \in Cores |-> U32Zero]
    /\ hdev = [c \in Cores |-> NULL]
    /\ hactive = [c \in Cores |-> {}]
    /\ nStarted = 0
    /\ nDone = 0
    /\ readVal = NoRead
    /\ readText = <<>>

(***************************************************************************)
(* handle_ipi, on core c.                                                  *)
(***************************************************************************)
\* the dispatch primitive calls the handler registered for a source
\* that fires; the read of ipi_count in "ipi_count + 1" is the first access
H_LoadCount(c) ==
    /\ hpc[c] = "idle"
    /\ \E n \in Sources : ipi_handler[n] = "handle_ipi"
    /\ nStarted < MaxInvocations
    /\ htmp' = [htmp EXCEPT ![c] = ipi_count]
    /\ hpc' = [hpc EXCEPT ![c] = "store"]
    /\ hactive' = [hactive EXCEPT ![c] = {d \in Devices : dstate[d] = "Active"}]
    /\ nStarted' = nStarted + 1
    /\ UNCHANGED <<globals, lifecycle, hdev, initial, nDone, reader>>

\* handle_ipi as it would be without the store of the incremented value
H_StoreCount_skipped(c) ==
    /\ hpc[c] = "store"
    /\ hpc' = [hpc EXCEPT ![c] = "load"]
    /\ UNCHANGED <<globals, lifecycle, htmp, hdev, hactive, initial, nStarted,
                   nDone, reader>>

\* smp_store_release(&ipi_count, <value read> + 1)
H_StoreCount(c) ==
    /\ hpc[c] = "store"
    /\ ipi_count' = U32Inc(htmp[c])
    /\ hpc' = [hpc EXCEPT ![c] = "load"]
    /\ UNCHANGED <<ipi_dev, ipi_handler, attr, lifecycle, htmp, hdev, hactive,
                   initial, nStarted, nDone, reader>>

\* dev = smp_load_acquire(&ipi_dev)
H_LoadDev(c) ==
    /\ hpc[c] = "load"
    /\ hdev' = [hdev EXCEPT ![c] = ipi_dev]
    /\ hpc' = [hpc EXCEPT ![c] = "check"]
    /\ UNCHANGED <<globals, lifecycle, htmp, hactive, initial, nStarted, nDone, reader>>

\* if(dev == NULL) return;
H_ReturnNull(c) ==
    /\ hpc[c] = "check"
    /\ hdev[c] = NULL
    /\ hpc' = [hpc EXCEPT ![c] = "idle"]
    /\ htmp' = [htmp EXCEPT ![c] = U32Zero]
    /\ hactive' = [hactive EXCEPT ![c] = {}]
    /\ nDone' = nDone + 1
    /\ UNCHANGED <<globals, lifecycle, hdev, initial, nStarted, reader>>

\* sysfs_notify(&dev->kobj, NULL, "count"); the function returns
H_Notify(c) ==
    /\ hpc[c] = "check"
    /\ hdev[c] # NULL
    /\ hpc' = [hpc EXCEPT ![c] = "idle"]
    /\ htmp' = [htmp EXCEPT ![c] = U32Zero]
    /\ hdev' = [hdev EXCEPT ![c] = NULL]
    /\ hactive' = [hactive EXCEPT ![c] = {}]
    /\ nDone' = nDone + 1
    /\ UNCHANGED <<globals, lifecycle, initial, nStarted, reader>>

handle_ipi(c) ==
    \/ H_LoadCount(c)
    \/ H_StoreCount(c)
    \/ H_LoadDev(c)
    \/ H_ReturnNull(c)
    \/ H_Notify(c)

(***************************************************************************)
(* count_show: a read of the 'count' attribute.                            *)
(***************************************************************************)
\* count_show as it would be if the u32 were loaded as two halves: the low
\* half can come from a store of another core that is in flight
count_show_torn ==
    /\ \E d \in Devices : attr[d] = "exists"
    /\ \E v \in {ipi_count} \cup
                {<<ipi_count[1], U32Inc(htmp[c])[2]>> : c \in {x \in Cores : hpc[x] = "store"}} :
          /\ readVal' = v
          /\ readText' = count_show_text(v)
    /\ UNCHANGED <<globals, lifecycle, handler, hactive, initial>>

\* smp_load_acquire(&ipi_count) is one access; snprintf formats the value loaded
count_show ==
    /\ \E d \in Devices : attr[d] = "exists"
    /\ readVal' = ipi_count
    /\ readText' = count_show_text(ipi_count)
    /\ UNCHANGED <<globals, lifecycle, handler, hactive, initial>>

(***************************************************************************)
(* user_sgi_probe(pdev), one statement per step.  ldev is pdev.            *)
(***************************************************************************)
\* user_sgi_probe as it would be if it reset the counter for a new instance
ProbeBegin_reset(d) ==
    /\ lpc = "idle"
    /\ dstate[d] = "Uninitialized"
    /\ dstate' = [dstate EXCEPT ![d] = "Probing"]
    /\ ldev' = d
    /\ lres' = 0
    /\ lpc' = "p_alloc"
    /\ ipi_count' = U32Zero
    /\ UNCHANGED <<ipi_dev, ipi_handler, attr, drvdata, handler, hactive,
                   initial, reader>>

\* the driver core calls .probe for an unbound device, one lifecycle
\* operation at a time
ProbeBegin(d) ==
    /\ lpc = "idle"
    /\ dstate[d] = "Uninitialized"
    /\ dstate' = [dstate EXCEPT ![d] = "Probing"]
    /\ ldev' = d
    /\ lres' = 0
    /\ lpc' = "p_alloc"
    /\ UNCHANGED <<globals, drvdata, handler, hactive, initial, reader>>

\* allocate_device_data: devm_kzalloc gives zeroed memory or NULL
allocate_device_data ==
    /\ lpc = "p_alloc"
    /\ \/ /\ drvdata' = [drvdata EXCEPT ![ldev] = <<0>>]
          /\ lpc' = "p_getnum"
          /\ UNCHANGED lres
       \/ /\ lres' = -ENOMEM
          /\ lpc' = "ret_nomem"
          /\ UNCHANGED drvdata
    /\ UNCHANGED <<globals, dstate, ldev, handler, hactive, initial, reader>>

\* get_ipi_number as it would be if the error path ran the rollback of
\* release_after_ipi: ipi_dev is cleared although this probe never set it
get_ipi_number_rollback ==
    /\ lpc = "p_getnum"
    /\ \/ /\ lres' = -EINVAL
          /\ lpc' = "ret_config"
          /\ ipi_dev' = NULL
          /\ UNCHANGED drvdata
       \/ \E prop \in Sources :
             /\ drvdata' = [drvdata EXCEPT ![ldev] = <<prop>>]
             /\ lpc' = "p_publish"
             /\ UNCHANGED <<lres, ipi_dev>>
    /\ UNCHANGED <<ipi_count, ipi_handler, attr, dstate, ldev, handler, hactive,
                   initial, reader>>

\* get_ipi_number: of_property_read_u32 fails when the node has no (readable)
\* ipi_number property and writes the field only on success
get_ipi_number ==
    /\ lpc = "p_getnum"
    /\ \/ /\ lres' = -EINVAL
          /\ lpc' = "ret_config"
          /\ UNCHANGED drvdata
       \/ \E prop \in Sources :
             /\ drvdata' = [drvdata EXCEPT ![ldev] = <<prop>>]
             /\ lpc' = "p_publish"
             /\ UNCHANGED lres
    /\ UNCHANGED <<globals, dstate, ldev, handler, hactive, initial, reader>>

\* user_sgi_probe as it would be without the store of line 142 before
\* set_ipi_handler
publish_ipi_dev_skipped ==
    /\ lpc = "p_publish"
    /\ lpc' = "p_sethandler"
    /\ UNCHANGED <<globals, drvdata, dstate, ldev, lres, handler, hactive,
                   initial, reader>>

\* smp_store_release(&ipi_dev, &pdev->dev)
publish_ipi_dev ==
    /\ lpc = "p_publish"
    /\ ipi_dev' = ldev
    /\ lpc' = "p_sethandler"
    /\ UNCHANGED <<ipi_count, ipi_handler, attr, drvdata, dstate, ldev, lres,
                   handler, hactive, initial, reader>>

\* user_sgi_probe as it would be if the attribute were created before the
\* handler can fire
set_ipi_handler_attr_first ==
    /\ lpc = "p_sethandler"
    /\ IF ipi_handler[ipi_number(ldev)] # "none"
       THEN /\ lres' = -EBUSY
            /\ lpc' = "ret_busy"
            /\ UNCHANGED <<ipi_handler, attr>>
       ELSE /\ ipi_handler' = [ipi_handler EXCEPT ![ipi_number(ldev)] = "handle_ipi"]
            /\ attr' = [attr EXCEPT ![ldev] = "exists"]
            /\ lpc' = "p_create"
            /\ UNCHANGED lres
    /\ UNCHANGED <<ipi_dev, ipi_count, drvdata, dstate, ldev,
                   handler, hactive, initial, reader>>

\* set_ipi_handler(data->ipi_number, handle_ipi, ...): refused when the
\* source already has a handler
set_ipi_handler ==
    /\ lpc = "p_sethandler"
    /\ IF ipi_handler[ipi_number(ldev)] # "none"
       THEN /\ lres' = -EBUSY
            /\ lpc' = "ret_busy"
            /\ UNCHANGED ipi_handler
       ELSE /\ ipi_handler' = [ipi_handler EXCEPT ![ipi_number(ldev)] = "handle_ipi"]
            /\ lpc' = "p_create"
            /\ UNCHANGED lres
    /\ UNCHANGED <<ipi_dev, ipi_count, attr, drvdata, dstate, ldev,
                   handler, hactive, initial, reader>>

\* device_create_file(&pdev->dev, &dev_attr_count), which may fail
device_create_file ==
    /\ lpc = "p_create"
    /\ \/ /\ attr' = [attr EXCEPT ![ldev] = "exists"]
          /\ lres' = 0
          /\ lpc' = "ret_ok"
       \/ /\ lres' = -EEXIST
          /\ lpc' = "rel_store"
          /\ UNCHANGED attr
    /\ UNCHANGED <<ipi_dev, ipi_count, ipi_handler, drvdata, dstate, ldev,
                   handler, hactive, initial, reader>>

(***************************************************************************)
(* release_after_ipi, called by the rollback of probe and by remove.       *)
(***************************************************************************)
\* release_after_ipi as it would be without the store of NULL before
\* clear_ipi_handler
release_store_null_skipped ==
    /\ lpc = "rel_store"
    /\ lpc' = "rel_clear"
    /\ UNCHANGED <<globals, drvdata, dstate, ldev, lres, handler, hactive,
                   initial, reader>>

\* smp_store_release(&ipi_dev, NULL)
release_store_null ==
    /\ lpc = "rel_store"
    /\ ipi_dev' = NULL
    /\ lpc' = "rel_clear"
    /\ UNCHANGED <<ipi_count, ipi_handler, attr, drvdata, dstate, ldev, lres,
                   handler, hactive, initial, reader>>

\* release_after_ipi as it would be without the call of clear_ipi_handler
release_clear_handler_skipped ==
    /\ lpc = "rel_clear"
    /\ lpc' = IF dstate[ldev] = "Removing" THEN "ret_remove" ELSE "ret_rollback"
    /\ UNCHANGED <<globals, drvdata, dstate, ldev, lres, handler, hactive,
                   initial, reader>>

\* clear_ipi_handler(drvdata->ipi_number); return result;
release_clear_handler ==
    /\ lpc = "rel_clear"
    /\ ipi_handler' = [ipi_handler EXCEPT ![ipi_number(ldev)] = "none"]
    /\ lpc' = IF dstate[ldev] = "Removing" THEN "ret_remove" ELSE "ret_rollback"
    /\ UNCHANGED <<ipi_dev, ipi_count, attr, drvdata, dstate, ldev, lres,
                   handler, hactive, initial, reader>>

(***************************************************************************)
(* user_sgi_remove(pdev).                                                  *)
(***************************************************************************)
\* the driver core calls .remove for a bound device; result is 0
RemoveBegin(d) ==
    /\ lpc = "idle"
    /\ dstate[d] = "Active"
    /\ dstate' = [dstate EXCEPT ![d] = "Removing"]
    /\ ldev' = d
    /\ lres' = 0
    /\ lpc' = "rm_file"
    /\ hactive' = [c \in Cores |-> hactive[c] \ {d}]
    /\ UNCHANGED <<globals, drvdata, handler, initial, reader>>

\* release_after_attribute_count as it would be without device_remove_file
device_remove_file_skipped ==
    /\ lpc = "rm_file"
    /\ lpc' = "rel_store"
    /\ UNCHANGED <<globals, drvdata, dstate, ldev, lres, handler, hactive,
                   initial, reader>>

\* release_after_attribute_count as it would be if the reference were
\* cleared before the attribute is destroyed
device_remove_file_ref_first ==
    /\ lpc = "rm_file"
    /\ ipi_dev' = NULL
    /\ lpc' = "rel_store"
    /\ UNCHANGED <<ipi_count, ipi_handler, attr, drvdata, dstate, ldev, lres,
                   handler, hactive, initial, reader>>

\* release_after_attribute_count: device_remove_file(&pdev->dev, &dev_attr_count)
device_remove_file ==
    /\ lpc = "rm_file"
    /\ attr' = [attr EXCEPT ![ldev] = "removed"]
    /\ lpc' = "rel_store"
    /\ UNCHANGED <<ipi_dev, ipi_count, ipi_handler, drvdata, dstate, ldev, lres,
                   handler, hactive, initial, reader>>

(***************************************************************************)
(* Return of probe or remove to the driver core.  The device is bound      *)
(* after a probe that returned 0; otherwise it is unbound and the devm     *)
(* allocation of allocate_device_data is released.                         *)
(***************************************************************************)
ReturnPoints == {"ret_nomem", "ret_config", "ret_busy", "ret_rollback", "ret_ok",
                 "ret_remove"}

LifecycleReturn ==
    /\ lpc \in ReturnPoints
    /\ IF lpc = "ret_ok"
       THEN /\ dstate' = [dstate EXCEPT ![ldev] = "Active"]
            /\ UNCHANGED drvdata
       ELSE /\ dstate' = [dstate EXCEPT ![ldev] = "Uninitialized"]
            /\ drvdata' = [drvdata EXCEPT ![ldev] = NoData]
    /\ lpc' = "idle"
    /\ ldev' = NULL
    /\ lres' = 0
    /\ UNCHANGED <<globals, handler, hactive, initial, reader>>

user_sgi_probe ==
    \/ \E d \in Devices : ProbeBegin(d)
    \/ allocate_device_data
    \/ get_ipi_number
    \/ publish_ipi_dev
    \/ set_ipi_handler
    \/ device_create_file

release_after_ipi ==
    \/ release_store_null
    \/ release_clear_handler

user_sgi_remove ==
    \/ \E d \in Devices : RemoveBegin(d)
    \/ device_remove_file

Next ==
    \/ \E c \in Cores : handle_ipi(c)
    \/ user_sgi_probe
    \/ release_after_ipi
    \/ user_sgi_remove
    \/ LifecycleReturn

\* the driver from module load on: probe, remove and the handler race
Spec == Init /\ [][Next]_vars

(***************************************************************************)
(* The counter under load: pdev1 is bound to source 8 (the state a         *)
(* successful probe leaves), interrupts arrive on every core and the       *)
(* 'count' attribute is read concurrently.  No lifecycle operation runs.   *)
(***************************************************************************)
\* counter values an Active driver can hold: 0, 2^31 - 1 and 2^32 - 1
CountInputs == {U32Zero, <<Base \div 2 - 1, Base - 1>>, <<Base - 1, Base - 1>>}

InitCount ==
    /\ ipi_dev = "pdev1"
    /\ ipi_count \in CountInputs
    /\ initial = ipi_count
    /\ ipi_handler = [n \in Sources |-> IF n = 8 THEN "handle_ipi" ELSE "none"]
    /\ attr = [d \in Devices |-> IF d = "pdev1" THEN "exists" ELSE "none"]
    /\ drvdata = [d \in Devices |-> IF d = "pdev1" THEN <<8>> ELSE NoData]
    /\ dstate = [d \in Devices |-> IF d = "pdev1" THEN "Active" ELSE "Uninitialized"]
    /\ lpc = "idle"
    /\ ldev = NULL
    /\ lres = 0
    /\ hpc = [c \in Cores |-> "idle"]
    /\ htmp = [c \in Cores |-> U32Zero]
    /\ hdev = [c \in Cores |-> NULL]
    /\ hactive = [c \in Cores |-> {}]
    /\ nStarted = 0
    /\ nDone = 0
    /\ readVal = NoRead
    /\ readText = <<>>

\* with ipi_dev never NULL the early return of handle_ipi is not taken
NextCount ==
    \/ \E c \in Cores : H_LoadCount(c)
    \/ \E c \in Cores : H_StoreCount(c)
    \/ \E c \in Cores : H_LoadDev(c)
    \/ \E c \in Cores : H_Notify(c)
    \/ count_show

SpecCount == InitCount /\ [][NextCount]_vars

(***************************************************************************)
(* Properties.                                                             *)
(***************************************************************************)
Quiescent == \A c \in Cores : hpc[c] = "idle"

FailedProbeReturns == {"ret_nomem", "ret_config", "ret_busy", "ret_rollback"}

\* C1: once all N handle_ipi invocations have completed, the counter reads
\* (initial + N) mod 2^32: no increment is lost.
C1_NoLostIncrement ==
    Quiescent => ipi_count = U32Add(initial, nDone)

\* C2: no handle_ipi invocation calls sysfs_notify for a 'count' attribute
\* that device_remove_file has already destroyed.
C2_NeverNotifyRemoved ==
    [][\A c \in Cores : H_Notify(c) => attr[hdev[c]] # "removed"]_vars

\* C3: when Probe returns an error, whatever the stage that failed, the
\* DeviceReference does not designate the device whose Probe failed (it is
\* null), no 'count' attribute exists for that device, and the handler this
\* Probe registered is unregistered.
C3_FailedProbeClean ==
    lpc \in FailedProbeReturns =>
        /\ ipi_dev # ldev
        /\ attr[ldev] # "exists"
        /\ lpc = "ret_rollback" => ipi_handler[ipi_number(ldev)] = "none"

\* C4: of two reads of 'count', the later never returns a smaller value than
\* the earlier, as long as the counter has not wrapped past 2^32 - 1.
C4_ReadsMonotonic ==
    [][(count_show /\ readVal # NoRead /\ ~U32Wraps(initial, nStarted))
           => U32Leq(readVal, readVal')]_vars

\* C5: a non-null device reference held by handle_ipi (loaded from ipi_dev,
\* about to be used by sysfs_notify) designates a device that is bound or
\* being probed or removed, never one whose Probe failed or whose Remove
\* has completed.
C5_LoadedRefValid ==
    \A c \in Cores :
        (hpc[c] = "check" /\ hdev[c] # NULL) => dstate[hdev[c]] # "Uninitialized"

\* the steps of a Probe that ends with the missing-ipi_number error, and
\* the return of that Probe
ConfigErrorStep ==
    /\ lpc' # lpc
    /\ \/ lpc' \in {"p_alloc", "p_getnum", "ret_config"}
       \/ lpc = "ret_config"

\* C6: a Probe whose node has no readable ipi_number returns an error, and no
\* step of it changes ipi_dev, the registered handlers, the existing
\* attributes or the counter.
C6_ConfigErrorNoEffect ==
    /\ [](lpc = "ret_config" => lres < 0)
    /\ [][ConfigErrorStep => UNCHANGED <<ipi_dev, ipi_count, ipi_handler, attr>>]_vars

\* a Probe without ipi_number is about to return while the other device is Active
C6_Witness ==
    /\ lpc = "ret_config"
    /\ \E d \in Devices : d # ldev /\ dstate[d] = "Active" /\ ipi_dev = d

\* C7: when device_create_file fails after the handler was registered, Probe
\* returns an error, and at its return the handler is unregistered for the
\* source id, ipi_dev is NULL and the device has no 'count' attribute.
C7_CreateFailureRolledBack ==
    lpc = "ret_rollback" =>
        /\ lres # 0
        /\ ipi_handler[ipi_number(ldev)] = "none"
        /\ ipi_dev = NULL
        /\ attr[ldev] # "exists"

\* the rollback has run while interrupts were being handled
C7_Witness ==
    lpc = "ret_rollback" /\ nStarted > 0

\* C8: Remove returns 0, and at its return the 'count' attribute does not
\* exist, ipi_dev is NULL and no handler is registered for the source id;
\* between lifecycle operations a source has a handler exactly when an Active
\* device holds it, so a Probe for the source of a removed device is not
\* refused.
C8_RemoveStartsClean ==
    /\ lpc = "ret_remove" =>
          /\ lres = 0
          /\ attr[ldev] # "exists"
          /\ ipi_dev = NULL
          /\ ipi_handler[ipi_number(ldev)] = "none"
    /\ lpc = "idle" =>
          \A n \in Sources :
              ipi_handler[n] = "handle_ipi"
                  <=> \E d \in Devices : dstate[d] = "Active" /\ drvdata[d] = <<n>>

\* a Remove returns after interrupts were handled and after the other device
\* went through a Probe/Remove cycle of its own
C8_Witness ==
    /\ lpc = "ret_remove"
    /\ nDone > 0
    /\ \E d \in Devices : d # ldev /\ attr[d] = "removed"

\* C9: a handle_ipi invocation that starts and finishes while a device is
\* Active ends with one sysfs_notify on that device's 'count' attribute.
C9_OneNotifyWhileActive ==
    [][\A c \in Cores :
          /\ H_ReturnNull(c) => hactive[c] = {}
          /\ H_Notify(c) => (hactive[c] = {} \/ hdev[c] \in hactive[c])]_vars

\* C10: a read of 'count' returns the decimal representation of the unsigned
\* 32-bit value that was loaded.
C10_ReadIsUnsignedDecimal ==
    readVal # NoRead => readText = DecDigits(readVal)

RemoveInFlight == ldev # NULL /\ dstate[ldev] = "Removing"

\* C12: Remove destroys the 'count' attribute first, then clears ipi_dev,
\* then unregisters the handler, and the per-instance state is released
\* last; no step of a Remove happens before the steps that precede it.
C12_RemoveOrder ==
    [][RemoveInFlight =>
          /\ attr' # attr =>
                /\ attr[ldev] = "exists" /\ attr'[ldev] = "removed"
                /\ ipi_handler[ipi_number(ldev)] = "handle_ipi"
          /\ ipi_dev' # ipi_dev =>
                /\ attr[ldev] = "removed" /\ ipi_dev' = NULL
                /\ ipi_handler[ipi_number(ldev)] = "handle_ipi"
          /\ ipi_handler' # ipi_handler =>
                /\ attr[ldev] = "removed" /\ ipi_dev = NULL
                /\ ipi_handler'[ipi_number(ldev)] = "none"
          /\ drvdata' # drvdata =>
                /\ attr[ldev] = "removed" /\ ipi_dev = NULL
                /\ ipi_handler[ipi_number(ldev)] = "none"
                /\ drvdata'[ldev] = NoData]_vars

\* a Remove has done its first three steps and has not yet returned
C12_Witness ==
    /\ lpc = "ret_remove"
    /\ attr[ldev] = "removed"
    /\ ipi_dev = NULL
    /\ ipi_handler[ipi_number(ldev)] = "none"
    /\ drvdata[ldev] # NoData

\* C13: Probe stores the device into ipi_dev before it registers the handler;
\* from the registration to the return of Probe ipi_dev designates the probed
\* device, only the store of release_after_ipi (Remove or a rollback) makes
\* ipi_dev NULL, and a load of handle_ipi returns what ipi_dev holds: a load
\* made after the registration and before such a store returns non-null.
C13_PublishedBeforeRegistered ==
    /\ [](lpc \in {"p_create", "ret_ok"} => ipi_dev = ldev)
    /\ [][ipi_handler' # ipi_handler /\ lpc = "p_sethandler"
             => ipi_dev = ldev /\ ipi_dev' = ldev]_vars
    /\ [][ipi_dev # NULL /\ ipi_dev' = NULL => lpc = "rel_store"]_vars
    /\ [][\A c \in Cores : H_LoadDev(c) => hdev'[c] = ipi_dev]_vars

\* a handler that fired after the registration holds the non-null reference
\* when Probe is about to return success
C13_Witness ==
    /\ lpc = "ret_ok"
    /\ \E c \in Cores : hpc[c] = "check" /\ hdev[c] = ldev

\* C14: in release_after_ipi, on the rollback path of Probe as in Remove,
\* ipi_dev is NULL while the handler is still registered, and a handler that
\* loads the reference between the two steps gets NULL (and so returns
\* without a notification).
C14_ClearedBeforeUnregistered ==
    /\ [](lpc = "rel_clear" =>
             ipi_dev = NULL /\ ipi_handler[ipi_number(ldev)] = "handle_ipi")
    /\ [][\A c \in Cores : (H_LoadDev(c) /\ lpc = "rel_clear") => hdev'[c] = NULL]_vars
    /\ [][\A c \in Cores : H_ReturnNull(c) => UNCHANGED <<globals, lifecycle>>]_vars

\* on the rollback path a handler has loaded NULL between the two steps
C14_Witness ==
    /\ lpc = "rel_clear"
    /\ dstate[ldev] = "Probing"
    /\ \E c \in Cores : hpc[c] = "check" /\ hdev[c] = NULL

HandlerOrder == {<<"idle", "store">>, <<"store", "load">>, <<"load", "check">>,
                 <<"check", "idle">>}

\* C15: every handle_ipi invocation writes the incremented counter before it
\* loads ipi_dev, and loads ipi_dev before it notifies or returns; the
\* increment is made before the reference is known, so also when it is NULL.
C15_IncrementFirst ==
    /\ [][\A c \in Cores : hpc'[c] # hpc[c] => <<hpc[c], hpc'[c]>> \in HandlerOrder]_vars
    /\ [][\A c \in Cores :
             (hpc[c] = "store" /\ hpc'[c] # "store") => ipi_count' = U32Inc(htmp[c])]_vars
    /\ [][\A c \in Cores : hdev'[c] # hdev[c] => hpc[c] \in {"load", "check"}]_vars
    /\ [][\A c \in Cores : (H_Notify(c) \/ H_ReturnNull(c)) => hpc[c] = "check"]_vars

\* an invocation has incremented the counter and then loaded a NULL reference
C15_Witness ==
    \E c \in Cores :
        /\ hpc[c] = "check"
        /\ hdev[c] = NULL
        /\ ipi_count = U32Inc(htmp[c])

\* C16: the counter changes only in the store of handle_ipi; no step of
\* Probe (successful or failing) or Remove changes it, so it is not reset
\* when an instance is removed and a new one is probed.
C16_CounterOnlyInHandler ==
    /\ [][ipi_count' # ipi_count => \E c \in Cores : H_StoreCount(c)]_vars
    /\ [][lpc' # lpc => ipi_count' = ipi_count]_vars

\* a device that was removed before is probed again, registered, and the
\* counter still holds the interrupts counted so far
C16_Witness ==
    /\ lpc = "p_create"
    /\ attr[ldev] = "removed"
    /\ ipi_count # U32Zero

\* C17: when a Probe is refused because an Active instance owns the source,
\* that instance is untouched: at the return of the refused Probe ipi_dev
\* designates the Active instance, whose handler is registered and whose
\* 'count' attribute exists.
C17_BusyProbeLeavesActive ==
    lpc = "ret_busy" =>
        \A d \in Devices :
            (dstate[d] = "Active" /\ drvdata[d] = drvdata[ldev]) =>
                /\ ipi_dev = d
                /\ ipi_handler[ipi_number(d)] = "handle_ipi"
                /\ attr[d] = "exists"

ProbeInFlight == ldev # NULL /\ dstate[ldev] = "Probing"

\* the part of a Probe where the handler is registered, ipi_dev is not yet
\* cleared and the probed device has no attribute
BeforeAttribute == ProbeInFlight /\ lpc \in {"p_create", "rel_store"}

\* C18 as stated: while a Probe is in flight, every sysfs_notify of handle_ipi
\* is for a device whose 'count' attribute exists.
C18_NotifyOnlyExisting ==
    [][\A c \in Cores : (H_Notify(c) /\ ProbeInFlight) => attr[hdev[c]] = "exists"]_vars

\* C18 as amended: after Probe has registered the handler and until the
\* attribute is created or the rollback clears ipi_dev, ipi_dev designates
\* the probed device, which has no 'count' attribute; a handler that loads
\* the reference then obtains that device, and an invocation holding a
\* non-null reference always ends with sysfs_notify.  Only a handler that
\* loads the reference after the rollback cleared it makes no notification.
C18_NotifyBeforeAttribute ==
    /\ [](BeforeAttribute =>
             /\ ipi_dev = ldev
             /\ attr[ldev] # "exists"
             /\ ipi_handler[ipi_number(ldev)] = "handle_ipi")
    /\ [][\A c \in Cores : (H_LoadDev(c) /\ BeforeAttribute) => hdev'[c] = ldev]_vars
    /\ [][\A c \in Cores :
             (hpc[c] = "check" /\ hdev[c] # NULL /\ hpc'[c] # "check") => H_Notify(c)]_vars
    /\ [][\A c \in Cores :
             (H_LoadDev(c) /\ ProbeInFlight /\ lpc = "rel_clear") => hdev'[c] = NULL]_vars

\* a handler is about to notify the probed device, whose attribute was never
\* created
C18_Witness ==
    /\ lpc = "p_create"
    /\ attr[ldev] = "none"
    /\ \E c \in Cores : hpc[c] = "check" /\ hdev[c] = ldev

====
